---- MODULE Spec2Model ----
(***************************************************************************)
(* The paragraph pipeline of ALIA-Eval:                                    *)
(*   01_extract_paragraphs.py         discovery, extraction, alignment     *)
(*   02_consolidate_parallel_texts.py consolidation into master files      *)
(*   03_verify_paragraph_counts.py    verification of the aligned tree     *)
(*                                                                         *)
(* A text is a sequence of lines, the way str.split('\n') sees it: the     *)
(* empty string is the one-line text <<Blank>>.  A paragraph is the        *)
(* sequence of its lines: python-docx renders a line break inside a        *)
(* paragraph as '\n' in para.text, and str.strip() only removes white      *)
(* space at the two ends, so an extracted paragraph has one line or more.  *)
(* Every non-blank line is tagged with the place it comes from, which      *)
(* makes provenance a function of the content.                            *)
(***************************************************************************)
EXTENDS Integers, Sequences, FiniteSets, TLC

\* ------------------------------------------------------------------ bounds
\* Most paragraphs a language variant has.
MaxParas == 2
\* Most complete document sets in the input tree of a batch run.
MaxSets == 2

\* ------------------------------------------------------- program constants
\* The category folders, in the order sorted() gives their names.
Folders == <<"Actualidad", "Consejo de Ministros", "Gobierno XV", "Presidente">>

\* The folders in the insertion order of discover_document_sets' dictionary.
folders == <<"Presidente", "Consejo de Ministros", "Gobierno XV", "Actualidad">>

\* The language codes of stage 1, in the order of language_patterns.
language_patterns ==
  << [code |-> "castellano", alts |-> {"castellano"}],
     [code |-> "ca_ES",      alts |-> {"ca-ES", "ca_ES"}],
     [code |-> "vl_ES",      alts |-> {"ca-ES-valencia", "va_ES", "vl_ES"}],
     [code |-> "gl_ES",      alts |-> {"gl-ES", "gl_ES", "ga_ES"}],
     [code |-> "eu_ES",      alts |-> {"eu-ES", "eu_ES"}] >>

Langs == {language_patterns[i].code : i \in DOMAIN language_patterns}

\* sorted() over the five language codes ('_' sorts before 's').
SortedLangs == <<"ca_ES", "castellano", "eu_ES", "gl_ES", "vl_ES">>

\* The languages the Verifier looks for.
languages == <<"castellano", "ca_ES", "vl_ES", "gl_ES", "eu_ES">>

\* The Consolidator's mapping from file stem to master file code, in order.
LANG_MAPPING ==
  << [key |-> "castellano", code |-> "es"],
     [key |-> "ca_ES",      code |-> "ca"],
     [key |-> "va_ES",      code |-> "va"],
     [key |-> "ga_ES",      code |-> "ga"],
     [key |-> "eu_ES",      code |-> "eu"] >>

MasterCodes == {LANG_MAPPING[i].code : i \in DOMAIN LANG_MAPPING}

\* Document base names of the model, in sorted order.
DocNames == <<"acta", "nota">>

Range(s) == {s[i] : i \in DOMAIN s}

IndexOf(s, x) == CHOOSE i \in DOMAIN s : s[i] = x

\* A document set is named by <<folder, document>>.
SetIds == {<<f, d>> : f \in Range(Folders), d \in Range(DocNames)}

\* Whether set a comes before set b in sorted (folder, document) order.
Before(a, b) ==
  \/ IndexOf(Folders, a[1]) < IndexOf(Folders, b[1])
  \/ a[1] = b[1] /\ IndexOf(DocNames, a[2]) < IndexOf(DocNames, b[2])

\* sorted(): the sets of S as a sequence in (folder, document) order.
RECURSIVE Sorted(_)
Sorted(S) ==
  IF S = {} THEN <<>>
  ELSE LET first == CHOOSE a \in S : \A b \in S \ {a} : Before(a, b)
       IN  <<first>> \o Sorted(S \ {first})

\* ------------------------------------------------------------------- texts
Line(f, d, l, i, j) == [folder |-> f, doc |-> d, lang |-> l, row |-> i, sub |-> j]

\* A line that line.strip() finds empty.
Blank == Line("", "", "", 0, 0)

\* A line left in a file by an earlier run.
Stale == Line("earlier run", "", "", 0, 0)

\* '\n\n'.join(paragraphs), as the lines of the resulting text.
RECURSIVE Join(_)
Join(paragraphs) ==
  IF paragraphs = <<>> THEN <<Blank>>
  ELSE IF Len(paragraphs) = 1 THEN paragraphs[1]
  ELSE paragraphs[1] \o <<Blank>> \o Join(Tail(paragraphs))

IsText(line) == line # Blank

\* The lines of a text that line.strip() keeps.
NonBlank(content) == SelectSeq(content, IsText)

\* count_paragraphs of the Verifier.
count_paragraphs(content) == Len(NonBlank(content))

\* ------------------------------------------------------------ the Extractor
\* The body of a document variant: shape.counts[l] paragraphs with text, the
\* first of them holding a line break when shape.brk names the language, and
\* the empty paragraph a word processor leaves at the end of a body.
Body(id, l, shape) ==
  [i \in 1..shape.counts[l] |->
     IF shape.brk = l /\ i = 1
     THEN <<Line(id[1], id[2], l, i, 1), Line(id[1], id[2], l, i, 2)>>
     ELSE <<Line(id[1], id[2], l, i, 1)>>] \o << <<>> >>

HasText(para) == para # <<>>

\* DocxParagraphExtractor.extract_paragraphs: the non-empty paragraphs.
extract_paragraphs(body) == SelectSeq(body, HasText)

\* ------------------------------------------------------------------- state
VARIABLES
  all_sets,          \* the complete document sets of original_texts: id -> shape
  disk,              \* extracted_paragraphs: .out, .disc (path -> text), .dirs
  prior,             \* the disk as the batch run found it
  pcMain,            \* stage 1 driver: "loop", "done"
  doc_counter,       \* main: sets attempted so far
  successful,        \* main: sets processed without error
  failed,            \* main: sets whose processing raised
  attempted,         \* history: the sets handed to process_document_set, in order
  pcCons,            \* stage 2: "idle", "complete", "raised"
  output_files,      \* stage 2: master code -> "unopened", "open", "closed"
  master,            \* evaluation_data_paragraphs: master code -> lines
  total_paragraphs,  \* stage 2 counter
  document_count,    \* stage 2 counter
  pcVer,             \* stage 3: "idle", "done"
  verdict,           \* stage 3: document directory -> passed
  all_ok,            \* stage 3: the aggregate result
  total_docs,        \* stage 3 counter
  listing,           \* discovery: folder -> the file names glob yields, in order
  pcDisc,            \* discovery: "idle", "done"
  found              \* discovery: the result of discover_document_sets

vars == <<all_sets, disk, prior, pcMain, doc_counter, successful, failed,
          attempted, pcCons, output_files, master, total_paragraphs,
          document_count, pcVer, verdict, all_ok, total_docs, listing, pcDisc,
          found>>

stage1Vars == <<pcMain, doc_counter, successful, failed, attempted>>
stage2Vars == <<pcCons, output_files, master, total_paragraphs, document_count>>
stage3Vars == <<pcVer, verdict, all_ok, total_docs>>
discoveryVars == <<listing, pcDisc, found>>

\* --------------------------------------------------- stage 1: Aligner/Writer
\* Python's s[lo:hi], which never raises.
Slice(s, lo, hi) ==
  LET top == IF hi < Len(s) THEN hi ELSE Len(s)
  IN  [i \in 1..(top - lo) |-> s[lo + i]]

\* Path.write_text: creates the file or replaces its content.
write_text(fn, path, content) ==
  [p \in DOMAIN fn \cup {path} |-> IF p = path THEN content ELSE fn[p]]

\* A directory without files.
NoFiles == [p \in {} |-> <<>>]

EmptyDisk == [out |-> NoFiles, disc |-> NoFiles, dirs |-> {}]

\* Lines 74-79: the extracted paragraphs of the five variants.
ExtractAll(id, shape) ==
  [l \in Langs |-> extract_paragraphs(Body(id, l, shape))]

\* min(counts.values()) taken over another dictionary's values.
min_count_of_primary(all_paragraphs) == Len(all_paragraphs["castellano"])

\* Lines 105-106: min(counts.values()).
min_count(all_paragraphs) ==
  LET counts == [l \in Langs |-> Len(all_paragraphs[l])]
  IN  CHOOSE m \in Range(counts) : \A l \in Langs : m <= counts[l]

\* Line 107: max(counts.values()).
max_count(all_paragraphs) ==
  LET counts == [l \in Langs |-> Len(all_paragraphs[l])]
  IN  CHOOSE m \in Range(counts) : \A l \in Langs : m >= counts[l]

\* Lines 121-137: the discard files of the languages longer than min_count,
\* under discarded_base / doc_name.
RECURSIVE save_discarded(_, _, _, _)
save_discarded(disc, doc_name, all_paragraphs, todo) ==
  IF todo = <<>> THEN disc
  ELSE LET l    == Head(todo)
           n    == min_count(all_paragraphs)
           next == IF Len(all_paragraphs[l]) > n
                   THEN write_text(disc, <<doc_name, l>>,
                          Join(Slice(all_paragraphs[l], n, Len(all_paragraphs[l]))))
                   ELSE disc
       IN  save_discarded(next, doc_name, all_paragraphs, Tail(todo))

\* Lines 142-143: every sequence cut to its first min_count paragraphs.
Trim(all_paragraphs) ==
  [l \in Langs |-> Slice(all_paragraphs[l], 0, min_count(all_paragraphs))]

\* Lines 151-158: the per-language files under output_base / folder / doc.
RECURSIVE save_parallel(_, _, _, _)
save_parallel(out, id, paragraphs, todo) ==
  IF todo = <<>> THEN out
  ELSE save_parallel(
         write_text(out, <<id[1], id[2], Head(todo)>>, Join(paragraphs[Head(todo)])),
         id, paragraphs, Tail(todo))

\* The disk after lines 99-162 have run on the extracted paragraphs.
AlignAndWrite(d, id, all_paragraphs) ==
  [out  |-> save_parallel(d.out, id, Trim(all_paragraphs), SortedLangs),
   disc |-> IF min_count(all_paragraphs) # max_count(all_paragraphs)
            THEN save_discarded(d.disc, id[2], all_paragraphs, SortedLangs)
            ELSE d.disc,
   dirs |-> d.dirs \cup {id}]

\* An aligner that writes each variant's file as soon as it is extracted.
process_document_set_streaming(d, id, shape) ==
  IF shape.corrupt = "none"
  THEN [raised |-> FALSE, disk |-> AlignAndWrite(d, id, ExtractAll(id, shape))]
  ELSE LET done == Slice(SortedLangs, 0, IndexOf(SortedLangs, shape.corrupt) - 1)
       IN  [raised |-> TRUE,
            disk   |-> [d EXCEPT
               !.out  = save_parallel(d.out, id, ExtractAll(id, shape), done),
               !.dirs = IF done = <<>> THEN d.dirs ELSE d.dirs \cup {id}]]

\* process_document_set: Document(docx_path) raises on the variant that cannot
\* be parsed, which is before line 99; otherwise the files are written.
process_document_set(d, id, shape) ==
  IF shape.corrupt # "none"
  THEN [raised |-> TRUE, disk |-> d]
  ELSE [raised |-> FALSE, disk |-> AlignAndWrite(d, id, ExtractAll(id, shape))]

\* ------------------------------------------------------ stage 1: main driver
\* An iteration whose except clause leaves the loop.
MainIterationAborting ==
  /\ pcMain = "loop"
  /\ doc_counter < Cardinality(DOMAIN all_sets)
  /\ LET id == Sorted(DOMAIN all_sets)[doc_counter + 1]
         r  == process_document_set(disk, id, all_sets[id])
     IN  /\ doc_counter' = doc_counter + 1
         /\ attempted' = Append(attempted, id)
         /\ disk' = r.disk
         /\ successful' = IF r.raised THEN successful ELSE successful + 1
         /\ failed' = IF r.raised THEN failed + 1 ELSE failed
         /\ pcMain' = IF r.raised THEN "done" ELSE pcMain
  /\ UNCHANGED <<all_sets, prior, stage2Vars, stage3Vars, discoveryVars>>

\* Lines 255-275: one iteration of the loop over the sorted document sets.
MainIteration ==
  /\ pcMain = "loop"
  /\ doc_counter < Cardinality(DOMAIN all_sets)
  /\ LET id == Sorted(DOMAIN all_sets)[doc_counter + 1]
         r  == process_document_set(disk, id, all_sets[id])
     IN  /\ doc_counter' = doc_counter + 1
         /\ attempted' = Append(attempted, id)
         /\ disk' = r.disk
         /\ successful' = IF r.raised THEN successful ELSE successful + 1
         /\ failed' = IF r.raised THEN failed + 1 ELSE failed
  /\ UNCHANGED <<pcMain, all_sets, prior, stage2Vars, stage3Vars, discoveryVars>>

\* Lines 277-294: the loop is over and the summary is printed.
MainSummary ==
  /\ pcMain = "loop"
  /\ doc_counter = Cardinality(DOMAIN all_sets)
  /\ pcMain' = "done"
  /\ UNCHANGED <<all_sets, disk, prior, doc_counter, successful, failed,
                 attempted, stage2Vars, stage3Vars, discoveryVars>>

\* ---------------------------------------------------- stage 2: Consolidator
\* The stems of the *.txt files of a document directory.
Stems(out, id) == {p[3] : p \in {q \in DOMAIN out : q[1] = id[1] /\ q[2] = id[2]}}

\* Lines 59-66: the non-blank lines of every file whose stem LANG_MAPPING knows,
\* under the master code of the stem.
read_document(out, id) ==
  LET known == {i \in DOMAIN LANG_MAPPING : LANG_MAPPING[i].key \in Stems(out, id)}
      keyOf(c) == LANG_MAPPING[CHOOSE i \in known : LANG_MAPPING[i].code = c].key
  IN  [c \in {LANG_MAPPING[i].code : i \in known} |->
         NonBlank(out[<<id[1], id[2], keyOf(c)>>])]

\* Lines 67-68: paragraph_count takes the first length that is not 0.
RECURSIVE first_count(_, _, _)
first_count(doc_paragraphs, todo, paragraph_count) ==
  IF todo = <<>> THEN paragraph_count
  ELSE first_count(doc_paragraphs, Tail(todo),
         IF Head(todo).code \in DOMAIN doc_paragraphs /\ paragraph_count = 0
         THEN Len(doc_paragraphs[Head(todo).code])
         ELSE paragraph_count)

\* Lines 71-79: on a mismatch every list is cut to the minimum.
realign(doc_paragraphs) ==
  LET counts == {Len(doc_paragraphs[c]) : c \in DOMAIN doc_paragraphs}
      least  == CHOOSE m \in counts : \A n \in counts : m <= n
  IN  IF Cardinality(counts) > 1
      THEN [paras |-> [c \in DOMAIN doc_paragraphs |->
                         Slice(doc_paragraphs[c], 0, least)],
            paragraph_count |-> least]
      ELSE [paras |-> doc_paragraphs,
            paragraph_count |-> first_count(doc_paragraphs, LANG_MAPPING, 0)]

\* Lines 52-89: one document directory appended to the master files.
consolidate_document(out, id, st) ==
  LET r == realign(read_document(out, id))
  IN  IF DOMAIN r.paras # {} /\ r.paragraph_count > 0
      THEN [master |-> [c \in MasterCodes |->
                          IF c \in DOMAIN r.paras
                          THEN st.master[c] \o r.paras[c]
                          ELSE st.master[c]],
            total_paragraphs |-> st.total_paragraphs + r.paragraph_count,
            document_count   |-> st.document_count + 1,
            raised           |-> FALSE]
      ELSE [st EXCEPT !.document_count = st.document_count + 1]

\* Lines 41-89: the loop over the document directories in sorted order; reading
\* document number failAt raises (0: nothing raises), and nothing catches it.
RECURSIVE consolidate_loop(_, _, _, _)
consolidate_loop(out, docs, failAt, st) ==
  IF st.document_count = Len(docs) THEN st
  ELSE IF st.document_count + 1 = failAt
       THEN [st EXCEPT !.document_count = failAt, !.raised = TRUE]
       ELSE consolidate_loop(out, docs, failAt,
              consolidate_document(out, docs[st.document_count + 1], st))

\* consolidate_parallel_texts: the master files are opened for writing, the
\* loop runs, and lines 92-93 close the files when the loop has ended.
Consolidate ==
  /\ pcMain = "done"
  /\ pcCons = "idle"
  /\ \E failAt \in 0..Cardinality(disk.dirs) :
       LET st == consolidate_loop(disk.out, Sorted(disk.dirs), failAt,
                   [master |-> [c \in MasterCodes |-> <<>>],
                    total_paragraphs |-> 0, document_count |-> 0,
                    raised |-> FALSE])
       IN  /\ master' = st.master
           /\ total_paragraphs' = st.total_paragraphs
           /\ document_count' = st.document_count
           /\ pcCons' = IF st.raised THEN "raised" ELSE "complete"
           /\ output_files' = [c \in MasterCodes |->
                                 IF st.raised THEN "open" ELSE "closed"]
  /\ UNCHANGED <<all_sets, disk, prior, stage1Vars, stage3Vars, discoveryVars>>

\* --------------------------------------------------------- stage 3: Verifier
\* Lines 49-53: the counts of the language files that exist.
verify_counts(out, id) ==
  LET there == {l \in Range(languages) : <<id[1], id[2], l>> \in DOMAIN out}
  IN  [l \in there |-> count_paragraphs(out[<<id[1], id[2], l>>])]

\* Lines 57-62: a document passes when its counts form a set of one element.
verify_document(out, id) ==
  LET counts == verify_counts(out, id)
  IN  Cardinality({counts[l] : l \in DOMAIN counts}) = 1

\* verify_all_documents.
VerifyAll ==
  /\ pcMain = "done"
  /\ pcVer = "idle"
  /\ verdict' = [id \in disk.dirs |-> verify_document(disk.out, id)]
  /\ all_ok' = \A id \in disk.dirs : verify_document(disk.out, id)
  /\ total_docs' = Cardinality(disk.dirs)
  /\ pcVer' = "done"
  /\ UNCHANGED <<all_sets, disk, prior, stage1Vars, stage2Vars, discoveryVars>>

\* ------------------------------------------------------------------ discovery
\* A file name is mark + stem + sep + tail + ext.
Name(mark, stem, sep, tail, ext) ==
  [mark |-> mark, stem |-> stem, sep |-> sep, tail |-> tail, ext |-> ext]

\* re.search(pattern, name) for the pattern [_-](alt|...)\.docx$.
Matches(pattern, name) ==
  name.ext = ".docx" /\ name.sep \in {"_", "-"} /\ name.tail \in pattern.alts

\* Lines 204-208: the index of the first pattern that matches, or 0.
RECURSIVE first_match(_, _)
first_match(name, i) ==
  IF i > Len(language_patterns) THEN 0
  ELSE IF Matches(language_patterns[i], name) THEN i
  ELSE first_match(name, i + 1)

\* dict[key] = value.
Put(fn, key, value) ==
  [k \in DOMAIN fn \cup {key} |-> IF k = key THEN value ELSE fn[k]]

Empty == [k \in {} |-> 0]

\* Lines 196-213: the files of a folder grouped by base name and language.
RECURSIVE group_files(_, _)
group_files(files, file_groups) ==
  IF files = <<>> THEN file_groups
  ELSE LET docx_file == Head(files)
           i         == first_match(docx_file, 1)
       IN  IF \/ docx_file.ext # ".docx"
              \/ docx_file.mark = "~"
              \/ i = 0
              \/ docx_file.stem = ""
           THEN group_files(Tail(files), file_groups)
           ELSE LET base_name == docx_file.stem
                    old == IF base_name \in DOMAIN file_groups
                           THEN file_groups[base_name] ELSE Empty
                IN  group_files(Tail(files),
                      Put(file_groups, base_name,
                          Put(old, language_patterns[i].code, docx_file)))

\* A completeness test that lets a set with one language missing through.
is_complete_lenient(lang_files) == Cardinality(DOMAIN lang_files) >= 4

\* Line 218: len(lang_files) == 5.
is_complete(lang_files) == Cardinality(DOMAIN lang_files) = 5

\* Lines 216-219.
complete_sets(file_groups) ==
  [b \in {b \in DOMAIN file_groups : is_complete(file_groups[b])} |-> file_groups[b]]

\* discover_document_sets: the folders that exist and hold a complete set.
discover_document_sets(tree) ==
  LET sets(f) == complete_sets(group_files(tree[f], Empty))
  IN  [f \in {f \in Range(folders) \cap DOMAIN tree : DOMAIN sets(f) # {}} |-> sets(f)]

Discover ==
  /\ pcDisc = "idle"
  /\ found' = discover_document_sets(listing)
  /\ pcDisc' = "done"
  /\ UNCHANGED <<all_sets, disk, prior, listing, stage1Vars, stage2Vars, stage3Vars>>

\* ------------------------------------------------------------ initial states
Shape(counts, brk, corrupt) == [counts |-> counts, brk |-> brk, corrupt |-> corrupt]

\* The document sets of a batch run: every language has one paragraph, one
\* language may have up to MaxParas, the first paragraph of the primary
\* language may hold a line break, and a set may have a variant that cannot be
\* parsed.
BatchShapes ==
  {Shape([l \in Langs |-> IF l = long THEN 1 + extra ELSE 1], brk, "none") :
     long \in {"castellano", "eu_ES"}, extra \in 0..(MaxParas - 1),
     brk \in {"none", "castellano"}}
  \cup {Shape([l \in Langs |-> 1], "none", "gl_ES")}

\* The folders that hold documents in a batch run of the model.
BatchIds == {id \in SetIds : id[1] \in {"Actualidad", "Presidente"}}

BatchTrees ==
  UNION {[S -> BatchShapes] : S \in {T \in SUBSET BatchIds : Cardinality(T) <= MaxSets}}

\* Any five variants of one document set.
AnyShapes ==
  {Shape(counts, brk, corrupt) :
     counts \in [Langs -> 0..MaxParas],
     brk \in Langs \cup {"none"}, corrupt \in Langs \cup {"none"}}

\* The files an earlier run left for a document set.
StaleDisk(id) ==
  [out  |-> [p \in {<<id[1], id[2], l>> : l \in Langs} |-> <<Stale>>],
   disc |-> [p \in {<<id[2], l>> : l \in Langs} |-> <<Stale>>],
   dirs |-> {id}]

\* A text of n one-line paragraphs.
TextOf(id, l, n) == Join([i \in 1..n |-> <<Line(id[1], id[2], l, i, 1)>>])

\* A document directory the Verifier may find: each language file is missing
\* (count -1) or holds 0..MaxParas paragraphs.
TreeOf(id, counts) ==
  [out  |-> [p \in {<<id[1], id[2], l>> : l \in {l \in Langs : counts[l] >= 0}} |->
               TextOf(id, p[3], counts[p[3]])],
   disc |-> NoFiles,
   dirs |-> {id}]

\* The union of two trees over different documents.
Merge(a, b) ==
  [out  |-> [p \in DOMAIN a.out \cup DOMAIN b.out |->
               IF p \in DOMAIN a.out THEN a.out[p] ELSE b.out[p]],
   disc |-> NoFiles,
   dirs |-> a.dirs \cup b.dirs]

VerifierTrees ==
  {Merge(TreeOf(<<"Actualidad", "acta">>, counts), other) :
     counts \in [Langs -> -1..MaxParas],
     other \in {EmptyDisk,
                TreeOf(<<"Presidente", "nota">>, [l \in Langs |-> -1]),
                TreeOf(<<"Presidente", "nota">>, [l \in Langs |-> 1]),
                TreeOf(<<"Presidente", "nota">>,
                       [l \in Langs |-> IF l = "eu_ES" THEN 0 ELSE 1])}}

Stage1Init ==
  /\ pcMain = "loop"
  /\ doc_counter = 0
  /\ successful = 0
  /\ failed = 0
  /\ attempted = <<>>

Stage2Init ==
  /\ pcCons = "idle"
  /\ output_files = [c \in MasterCodes |-> "unopened"]
  /\ master = [c \in MasterCodes |-> <<>>]
  /\ total_paragraphs = 0
  /\ document_count = 0

Stage3Init ==
  /\ pcVer = "idle"
  /\ verdict = Empty
  /\ all_ok = TRUE
  /\ total_docs = 0

DiscoveryIdle ==
  /\ listing = Empty
  /\ pcDisc = "idle"
  /\ found = Empty

\* A batch run over a tree of complete document sets, on an empty output tree.
Init ==
  /\ all_sets \in BatchTrees
  /\ disk = EmptyDisk
  /\ prior = disk
  /\ Stage1Init /\ Stage2Init /\ Stage3Init /\ DiscoveryIdle

\* A batch run over one document set of any shape, on an output tree that is
\* empty or holds the files of an earlier run.
InitAlign ==
  /\ all_sets \in [{<<"Presidente", "acta">>} -> AnyShapes]
  /\ disk \in {EmptyDisk, StaleDisk(<<"Presidente", "acta">>)}
  /\ prior = disk
  /\ Stage1Init /\ Stage2Init /\ Stage3Init /\ DiscoveryIdle

\* The Verifier started on a tree it finds.
InitVerify ==
  /\ all_sets = Empty
  /\ disk \in VerifierTrees
  /\ prior = disk
  /\ pcMain = "done"
  /\ doc_counter = 0 /\ successful = 0 /\ failed = 0 /\ attempted = <<>>
  /\ Stage2Init /\ Stage3Init /\ DiscoveryIdle

\* The suffix a file of each language carries, and a second suffix or
\* separator its pattern accepts as well.
Suffix == [i \in DOMAIN language_patterns |-> language_patterns[i].code]

OtherSuffix == <<"castellano", "ca-ES", "ca-ES-valencia", "ga_ES", "eu-ES">>

\* What a folder holds for the language of pattern i of document acta.
Variants ==
  {"absent", "plain", "other", "temp", "nosep", "nostem", "nota", "txt"}

FileOf(i, variant) ==
  CASE variant = "absent" -> <<>>
    [] variant = "plain"  -> <<Name("", "acta", "_", Suffix[i], ".docx")>>
    [] variant = "other"  -> <<Name("", "acta", "-", OtherSuffix[i], ".docx")>>
    [] variant = "temp"   -> <<Name("~", "acta", "_", Suffix[i], ".docx")>>
    [] variant = "nosep"  -> <<Name("", "acta", "", Suffix[i], ".docx")>>
    [] variant = "nostem" -> <<Name("", "", "_", Suffix[i], ".docx")>>
    [] variant = "nota"   -> <<Name("", "nota", "_", Suffix[i], ".docx")>>
    [] variant = "txt"    -> <<Name("", "acta", "_", Suffix[i], ".txt")>>

\* The listing of a folder, and always a file in a language no pattern knows.
ListingOf(choice) ==
  FileOf(1, choice[1]) \o FileOf(2, choice[2]) \o FileOf(3, choice[3])
    \o FileOf(4, choice[4]) \o FileOf(5, choice[5])
    \o <<Name("", "acta", "_", "en_GB", ".docx")>>

\* What the folder Actualidad holds: nothing, a complete set, or the two
\* files acta_castellano.docx and acta_ca-ES.docx.
SecondFolder ==
  {<<>>,
   ListingOf([i \in 1..5 |-> "plain"]),
   <<Name("", "acta", "_", "castellano", ".docx"),
     Name("", "acta", "_", "ca-ES", ".docx")>>}

\* original_texts with the folder Presidente, and with or without Actualidad.
InitDiscover ==
  /\ \E choice \in [1..5 -> Variants] :
       \/ listing = [f \in {"Presidente"} |-> ListingOf(choice)]
       \/ \E second \in SecondFolder :
            listing = [f \in {"Presidente", "Actualidad"} |->
                         IF f = "Presidente" THEN ListingOf(choice) ELSE second]
  /\ pcDisc = "idle"
  /\ found = Empty
  /\ all_sets = Empty
  /\ disk = EmptyDisk
  /\ prior = disk
  /\ Stage1Init /\ Stage2Init /\ Stage3Init

\* ------------------------------------------------------------- specifications
Next == MainIteration \/ MainSummary \/ Consolidate \/ VerifyAll

Spec == Init /\ [][Next]_vars

\* Stage 1 alone.
NextAlign == MainIteration \/ MainSummary

SpecAlign == InitAlign /\ [][NextAlign]_vars

NextVerify == VerifyAll

SpecVerify == InitVerify /\ [][NextVerify]_vars

NextDiscover == Discover

SpecDiscover == InitDiscover /\ [][NextDiscover]_vars

\* --------------------------------------------------------------------- claims
\* The sets of the run whose processing has returned without raising.
Processed == {id \in Range(attempted) : all_sets[id].corrupt = "none"}

\* The shortest of the five extracted sequences of a set.
Least(seqs) ==
  CHOOSE m \in {Len(seqs[l]) : l \in Langs} : \A l \in Langs : m <= Len(seqs[l])

FirstRows(seq, n) == [i \in 1..n |-> seq[i]]

RowsAfter(seq, n) == [i \in 1..(Len(seq) - n) |-> seq[n + i]]

OutPath(id, l) == <<id[1], id[2], l>>

DiscPath(id, l) == <<id[2], l>>

\* C1: after process_document_set has returned for a document set, each
\* language's output file holds the first min_count paragraphs of its extracted
\* sequence in order; a language longer than min_count has a discard file with
\* its remaining paragraphs, and the discard file of any other language is as
\* the call found it; with five equal counts every output holds its whole
\* sequence and no discard file is touched.
C1_AlignedToShortest ==
  \A id \in Processed :
    LET seqs == ExtractAll(id, all_sets[id])
        m    == Least(seqs)
    IN  /\ \A l \in Langs :
             /\ OutPath(id, l) \in DOMAIN disk.out
             /\ disk.out[OutPath(id, l)] = Join(FirstRows(seqs[l], m))
             /\ IF Len(seqs[l]) > m
                THEN /\ DiscPath(id, l) \in DOMAIN disk.disc
                     /\ disk.disc[DiscPath(id, l)] = Join(RowsAfter(seqs[l], m))
                ELSE /\ DiscPath(id, l) \in DOMAIN disk.disc
                          <=> DiscPath(id, l) \in DOMAIN prior.disc
                     /\ DiscPath(id, l) \in DOMAIN disk.disc
                          => disk.disc[DiscPath(id, l)] = prior.disc[DiscPath(id, l)]
        /\ (\A l \in Langs : Len(seqs[l]) = m)
             => /\ \A l \in Langs : disk.out[OutPath(id, l)] = Join(seqs[l])
                /\ disk.disc = prior.disc

\* A set with a language two paragraphs long and another one paragraph long
\* has been aligned on a tree that held files of an earlier run.
C1_Witness ==
  /\ pcMain = "done"
  /\ successful = 1
  /\ prior # EmptyDisk
  /\ \E id \in Processed :
       /\ Least(ExtractAll(id, all_sets[id])) = 1
       /\ Len(ExtractAll(id, all_sets[id])["eu_ES"]) = 2
       /\ Len(ExtractAll(id, all_sets[id])["castellano"]) = 1

\* C10: when a variant of a document set cannot be parsed, the call changes no
\* output file, no discard file and no directory.
C10_NothingWrittenOnParseFailure ==
  \A id \in Range(attempted) : all_sets[id].corrupt # "none" => disk = prior

\* The last variant in sorted order could not be parsed, after four variants
\* with paragraphs were extracted, on a tree that held files of an earlier run.
C10_Witness ==
  /\ failed = 1
  /\ prior # EmptyDisk
  /\ \E id \in Range(attempted) :
       /\ all_sets[id].corrupt = "vl_ES"
       /\ \A l \in Langs : all_sets[id].counts[l] >= 1

\* C5: the sets are attempted in sorted (folder, document) order, each at most
\* once; successful + failed counts the attempts and failed counts those that
\* raised; and the loop ends only when every set has been attempted.
C5_BatchNeverStops ==
  /\ Len(attempted) = doc_counter
  /\ \A i, j \in DOMAIN attempted : i < j => Before(attempted[i], attempted[j])
  /\ Range(attempted) \subseteq DOMAIN all_sets
  /\ successful + failed = doc_counter
  /\ failed = Cardinality({i \in DOMAIN attempted : all_sets[attempted[i]].corrupt # "none"})
  /\ pcMain = "done"
       => /\ Range(attempted) = DOMAIN all_sets
          /\ successful + failed = Cardinality(DOMAIN all_sets)

\* The first set raised and a later one was processed.
C5_Witness ==
  /\ pcMain = "done"
  /\ Len(attempted) >= 2
  /\ all_sets[attempted[1]].corrupt # "none"
  /\ successful >= 1
  /\ failed >= 1

\* A file of the listing that discovery collects for (base name, language).
Collected(f, base, l) ==
  /\ f \in DOMAIN listing
  /\ \E k \in DOMAIN listing[f] :
       LET n == listing[f][k]
       IN  /\ n.ext = ".docx"
           /\ n.mark # "~"
           /\ n.stem = base
           /\ base # ""
           /\ n.sep \in {"_", "-"}
           /\ \E i \in DOMAIN language_patterns :
                language_patterns[i].code = l /\ n.tail \in language_patterns[i].alts

\* C4: a base name is in the result for a folder exactly when files of all
\* five languages were collected for it in that folder, and every path of the
\* result is a file that matches its language and does not start with '~'.
C4_OnlyCompleteSets ==
  pcDisc = "done" =>
    /\ DOMAIN found \subseteq Range(folders)
    /\ \A f \in Range(folders), base \in {"", "acta", "nota"} :
         (f \in DOMAIN found /\ base \in DOMAIN found[f])
           <=> \A l \in Langs : Collected(f, base, l)
    /\ \A f \in DOMAIN found : \A base \in DOMAIN found[f] :
         /\ base \in {"acta", "nota"}
         /\ DOMAIN found[f][base] = Langs
         /\ \A l \in Langs :
              LET n == found[f][base][l]
              IN  n.mark # "~" /\ n.stem = base /\ Collected(f, base, l)

\* acta is found in Presidente, and not in Actualidad, which holds only
\* acta_castellano.docx and acta_ca-ES.docx.
C4_Witness ==
  /\ pcDisc = "done"
  /\ "Presidente" \in DOMAIN found
  /\ "acta" \in DOMAIN found["Presidente"]
  /\ "Actualidad" \in DOMAIN listing
  /\ Len(listing["Actualidad"]) = 2
  /\ "Actualidad" \notin DOMAIN found

\* C2: after stage 1 and then stage 2, the five master files have the same
\* number of lines.
C2_MasterFilesSameLength ==
  pcCons = "complete" =>
    \A c1, c2 \in MasterCodes : Len(master[c1]) = Len(master[c2])

Triple(line) == <<line.folder, line.doc, line.row>>

\* C3: after stage 2, line k of the primary master file and line k of every
\* other master file come from the same (folder, document, row), and the
\* documents follow each other in sorted order.
C3_SameRowOnEveryLine ==
  pcCons = "complete" =>
    /\ \A k \in DOMAIN master["es"] : \A c \in MasterCodes :
         /\ k \in DOMAIN master[c]
         /\ Triple(master[c][k]) = Triple(master["es"][k])
    /\ \A j, k \in DOMAIN master["es"] :
         j < k => LET a == master["es"][j]
                      b == master["es"][k]
                  IN  <<a.folder, a.doc>> = <<b.folder, b.doc>>
                        \/ Before(<<a.folder, a.doc>>, <<b.folder, b.doc>>)

\* C6: the Verifier passes every document set that stage 1 processed without
\* error, and its aggregate result is pass when every document passed.
C6_VerifierPassesAligned ==
  pcVer = "done" =>
    /\ \A id \in Processed : id \in DOMAIN verdict /\ verdict[id]
    /\ (\A id \in DOMAIN verdict : verdict[id]) => all_ok

\* C7: once the Consolidator's run has ended, normally or by an error raised
\* while a document was read, the five master file handles are closed.
C7_MasterHandlesClosed ==
  pcCons \in {"complete", "raised"} =>
    \A c \in MasterCodes : output_files[c] = "closed"

\* A document directory whose five language files exist with equal counts.
AllFiveEqual(id) ==
  /\ \A l \in Langs : OutPath(id, l) \in DOMAIN disk.out
  /\ \A l1, l2 \in Langs :
       count_paragraphs(disk.out[OutPath(id, l1)])
         = count_paragraphs(disk.out[OutPath(id, l2)])

\* C8: the Verifier passes a document only if its five language files were
\* read and their counts are equal, and returns True exactly when every
\* document directory passes in that sense.
C8_PassNeedsAllFive ==
  pcVer = "done" =>
    /\ \A id \in DOMAIN verdict : verdict[id] => AllFiveEqual(id)
    /\ all_ok <=> \A id \in disk.dirs : AllFiveEqual(id)

\* C9: after the batch run, the discard file of every processed set and of
\* every language of it that was longer than the shortest holds that set's
\* surplus paragraphs.
C9_DiscardsKeptApart ==
  pcMain = "done" =>
    \A id \in Processed :
      LET seqs == ExtractAll(id, all_sets[id])
      IN  \A l \in Langs :
            Len(seqs[l]) > Least(seqs)
              => /\ DiscPath(id, l) \in DOMAIN disk.disc
                 /\ disk.disc[DiscPath(id, l)] = Join(RowsAfter(seqs[l], Least(seqs)))

====
